---- MODULE Spec2Model ----
(***************************************************************************)
(* Verification model of the vector data-access layer of osbornesec/mobius *)
(* (app/db/vector_ops.py over the schema of app/db/models.py and           *)
(* alembic/versions/001_initial_schema.py).                                *)
(*                                                                         *)
(* The database is modelled by the set of committed embedding rows plus,   *)
(* per session, the rows flushed inside its open transaction.  Every await *)
(* of the code (flush, commit, execute) is a separate step, so that calls  *)
(* on separate sessions interleave exactly at the suspension points.       *)
(*                                                                         *)
(* Fixed-point numbers: distances and similarities are integers in units   *)
(* of 1/Scale.  A vector is kept sparsely: `len` is its number of          *)
(* components, `pt` its first two components, all the others being 0.      *)
(*                                                                         *)
(* Around it the model follows the engine, the get_db dependency and the   *)
(* health probe of app/db/base.py, the settings accessor of                *)
(* app/core/config.py, a request through the middleware stack of           *)
(* app/main.py, and the commit message hook of scripts/prepare-commit-msg. *)
(***************************************************************************)
EXTENDS Integers, Sequences, FiniteSets, TLC

VARIABLES
    committed,  \* the embeddings table: rows durably committed
    sess,       \* per session: the running call and its open transaction
    nextId,     \* source of fresh primary keys (gen_random_uuid())
    projects,   \* the projects table: ids of the rows it holds
    documents,  \* the documents table: ids of the rows it holds
    engine,     \* app/db/base.py: the lazy engine, the engines created
    dep,        \* app/db/base.py: one use of the get_db dependency
    health,     \* app/db/base.py and app/main.py: one health probe
    settings,   \* app/core/config.py: the module-level settings slot
    request,    \* app/middleware: one request through the middleware stack
    hook        \* scripts/prepare-commit-msg: one run of the commit hook

dbVars == <<committed, sess, nextId, projects, documents>>

appVars == <<engine, dep, health, settings, request, hook>>

vars == <<dbVars, appVars>>

----------------------------------------------------------------------------
(* Program constants and bounds *)

\* Vector(1536): the only accepted number of components.
Dim == 1536

\* Longest input list of a single insert_embeddings call (SpecInsert).
MaxN == 3

\* Longest input list of each of two concurrent calls (Spec).
ConcMaxN == 2

\* Largest search limit tried.
MaxLimit == 3

Scale == 10 * 10

Sessions == {"s1", "s2"}

Min(a, b) == IF a < b THEN a ELSE b

----------------------------------------------------------------------------
(* Projects and documents: created upstream.  The columns of a document  *)
(* are fixed here (documents.id -> columns); which projects and documents *)
(* exist is state.                                                        *)

ProjectIds == {"p1", "p2"}

DocumentIds == {"d1", "d2", "d3"}

Document(d) ==
    IF d = "d1"
    THEN [id |-> "d1", project_id |-> "p1", file_path |-> "/src/a.py",
          file_type |-> "python"]
    ELSE IF d = "d2"
    THEN [id |-> "d2", project_id |-> "p2", file_path |-> "/docs/b.md",
          file_type |-> "markdown"]
    ELSE [id |-> "d3", project_id |-> "p1", file_path |-> "/src/c.py",
          file_type |-> "python"]

----------------------------------------------------------------------------
(* Vectors *)

Vec(n, p) == [len |-> n, pt |-> p]

\* A vector of 100 components (the test's wrong dimension) and one of 1537.
BadVectors == {Vec(100, <<5, 0>>), Vec(Dim + 1, <<5, 0>>)}

\* len(data["embedding"]) != 1536, negated.
ValidDimensionSkipped(v) == TRUE

ValidDimension(v) == v.len = Dim

NoMetadata == [kind |-> "null"]

----------------------------------------------------------------------------
(* Metadata: Python values and the JSONB column.  A str, int or bool is   *)
(* written the same on both sides; a dict is its items in insertion order *)
(* on the Python side and a map from key to value in the column; None is  *)
(* the null of the column.                                                *)

JString(s) == [t |-> "string", s |-> s]
JNumber(n) == [t |-> "number", n |-> n]
JBool(b) == [t |-> "boolean", b |-> b]
JNull == [t |-> "null"]
JArray(items) == [t |-> "array", items |-> items]
JObject(fields) == [t |-> "object", fields |-> fields]

Object(fields) == [kind |-> "object", fields |-> fields]

PyNone == [t |-> "none"]
PyList(items) == [t |-> "list", items |-> items]
PyDict(items) == [t |-> "dict", items |-> items]

\* dict.keys(), and dict[key] (of a repeated key the last item counts)
Keys(items) == {items[k][1] : k \in DOMAIN items}

ValueAt(items, key) ==
    items[CHOOSE k \in DOMAIN items :
            /\ items[k][1] = key
            /\ \A j \in DOMAIN items : j > k => items[j][1] # key][2]

\* A column that keeps one level of scalars only: what is nested is lost.
JValueShallow(v) ==
    IF v.t = "dict"
    THEN JObject([key \in Keys(v.items) |->
                    LET x == ValueAt(v.items, key)
                    IN  IF x.t \in {"list", "dict", "none"} THEN JNull ELSE x])
    ELSE JNull

\* The bind processor of the JSONB type: json.dumps, read by the storage.
RECURSIVE JValue(_)
JValue(v) ==
    CASE v.t = "string" -> JString(v.s)
      [] v.t = "number" -> JNumber(v.n)
      [] v.t = "boolean" -> JBool(v.b)
      [] v.t = "list" -> JArray([k \in DOMAIN v.items |-> JValue(v.items[k])])
      [] v.t = "dict" ->
            JObject([key \in Keys(v.items) |-> JValue(ValueAt(v.items, key))])
      [] OTHER -> JNull

\* The value of the embedding_metadata column for data.get("metadata").
ToJsonb(v) ==
    IF v.t = "dict" THEN Object(JValue(v).fields) ELSE NoMetadata

\* The order in which the storage hands back the keys of an object: its
\* own, not the order of insertion.
RECURSIVE KeyOrder(_)
KeyOrder(S) ==
    IF S = {} THEN <<>>
    ELSE LET x == CHOOSE x \in S : TRUE IN <<x>> \o KeyOrder(S \ {x})

\* The result processor of the JSONB type: json.loads of the stored text.
RECURSIVE PyValue(_)
PyValue(j) ==
    CASE j.t = "string" -> JString(j.s)
      [] j.t = "number" -> JNumber(j.n)
      [] j.t = "boolean" -> JBool(j.b)
      [] j.t = "array" -> PyList([k \in DOMAIN j.items |-> PyValue(j.items[k])])
      [] j.t = "object" ->
            LET order == KeyOrder(DOMAIN j.fields)
            IN  PyDict([k \in DOMAIN order |->
                          <<order[k], PyValue(j.fields[order[k]])>>])
      [] OTHER -> PyNone

\* Embedding.embedding_metadata as loaded from a row.
FromJsonb(col) ==
    IF col.kind = "object" THEN PyValue(JObject(col.fields)) ELSE PyNone

----------------------------------------------------------------------------
(* The embeddings table *)

Pair(r) == <<r.document_id, r.chunk_index>>

\* uq_document_chunk disabled: nothing ever conflicts.
UniqueViolationOff(new, existing) == FALSE

\* The constraint on document_id alone: one row for each document.
UniqueViolationPerDocument(new, existing) ==
    \/ \E a \in new : \E b \in existing : a.document_id = b.document_id
    \/ \E a \in new : \E b \in new : a # b /\ a.document_id = b.document_id

\* UniqueConstraint("document_id", "chunk_index"): the rows `new` cannot be
\* inserted next to `existing` (nor next to each other).
UniqueViolation(new, existing) ==
    \/ \E a \in new : \E b \in existing : Pair(a) = Pair(b)
    \/ \E a \in new : \E b \in new : a # b /\ Pair(a) = Pair(b)

\* ForeignKey("documents.id"): a row of `new` names a document that is not
\* in the documents table.
ForeignKeyViolation(new) == \E a \in new : a.document_id \notin documents

\* The INSERT of another open transaction holds the pair: this one waits.
WaitsFor(new, s) ==
    \E t \in Sessions \ {s} :
        \E a \in new : \E b \in sess[t].pend : Pair(a) = Pair(b)

\* Embedding(document_id=..., chunk_index=..., ...) for the k-th record of a
\* sub-batch, with the primary key the INSERT returns.
EmbeddingRow(data, id) ==
    [id |-> id,
     document_id |-> data.document_id,
     chunk_index |-> data.chunk_index,
     chunk_text |-> data.chunk_text,
     embedding |-> data.embedding,
     embedding_metadata |-> ToJsonb(data.metadata)]

NewRows(batch, firstId) ==
    {EmbeddingRow(batch[k], firstId + k - 1) : k \in 1..Len(batch)}

NewIds(batch, firstId) == [k \in 1..Len(batch) |-> firstId + k - 1]

\* What a session reads: committed rows and those of its own transaction.
Visible(s) == committed \cup sess[s].pend

----------------------------------------------------------------------------
(* insert_embeddings *)

\* for i in range(0, len(embeddings_data), batch_size): is there an i ?
RangeHasNext(i, n, step) == IF step > 0 THEN i < n ELSE i > n

\* embeddings_data[i : i + batch_size]
Slice(data, i, bs) == SubSeq(data, i + 1, Min(i + bs, Len(data)))

\* created_ids.extend([e.id for e in embeddings])
ExtendIdsReversed(created, ids) == ids \o created

ExtendIds(created, ids) == created \o ids

\* session.flush() inside the loop made durable at once.
FlushCommitsAtOnce(rows, pend, new) ==
    [committed |-> rows \cup pend \cup new, pend |-> {}]

\* session.flush(): the INSERTs join the open transaction, nothing is durable.
Flush(rows, pend, new) == [committed |-> rows, pend |-> pend \cup new]

\* A rollback that keeps the transaction's rows.
RollbackKeeps(pend) == pend

\* session.rollback(): the open transaction's rows are gone.
Rollback(pend) == {}

Idle ==
    [pc |-> "idle", op |-> "none", data |-> <<>>, batch_size |-> 1, i |-> 0,
     embeddings |-> <<>>, pend |-> {}, created_ids |-> <<>>, flushes |-> 0,
     args |-> <<>>, result |-> <<>>, executes |-> 0, warned |-> FALSE,
     err |-> "none", tx |-> "none", slow |-> FALSE]

\* raise inside the try: except ...: await session.rollback(); raise.
\* tx is the state of the session's transaction: "none" before the first
\* statement and after a commit or a rollback, "active" after a statement
\* that succeeded, "aborted" after a statement the storage failed.
Raise(s, e, sent) ==
    sess' = [sess EXCEPT ![s].pc = "raised",
                         ![s].err = e,
                         ![s].embeddings = <<>>,
                         ![s].pend = Rollback(sess[s].pend),
                         ![s].tx = "none",
                         ![s].flushes = sess[s].flushes + sent]

InsertCall(s, data, bs) ==
    /\ sess[s].pc = "idle"
    /\ sess' = [sess EXCEPT ![s].pc = "loop",
                            ![s].op = "insert",
                            ![s].data = data,
                            ![s].batch_size = bs]
    /\ UNCHANGED <<committed, nextId, projects, documents, appVars>>

\* The for header, the construction and validation of the next sub-batch and
\* session.add_all, up to the await of flush.
InsertLoop(s) ==
    LET c == sess[s]
        batch == Slice(c.data, c.i, c.batch_size)
    IN  /\ c.pc = "loop"
        /\ IF c.batch_size = 0
           THEN Raise(s, "ValueError", 0)      \* range() arg 3 must not be zero
           ELSE IF ~RangeHasNext(c.i, Len(c.data), c.batch_size)
           THEN sess' = [sess EXCEPT ![s].pc = "commit"]
           ELSE IF \E k \in 1..Len(batch) : ~ValidDimension(batch[k].embedding)
           THEN Raise(s, "ValueError", 0)      \* Invalid vector dimension
           ELSE sess' = [sess EXCEPT ![s].pc = "flush",
                                     ![s].embeddings = batch]
        /\ UNCHANGED <<committed, nextId, projects, documents, appVars>>

\* await session.flush(); created_ids.extend(...)
InsertFlush(s) ==
    LET c == sess[s]
        new == NewRows(c.embeddings, nextId)
        after == Flush(committed, c.pend, new)
    IN  /\ c.pc = "flush"
        /\ \/ /\ Raise(s, "DBAPIError", 1)    \* connection lost, deadlock victim
              /\ UNCHANGED <<committed, nextId, projects, documents, appVars>>
           \/ /\ UniqueViolation(new, Visible(s)) \/ ForeignKeyViolation(new)
              /\ Raise(s, "IntegrityError", 1)
              /\ UNCHANGED <<committed, nextId, projects, documents, appVars>>
           \/ /\ ~UniqueViolation(new, Visible(s))
              /\ ~ForeignKeyViolation(new)
              /\ ~WaitsFor(new, s)
              /\ UNCHANGED <<projects, documents, appVars>>
              /\ committed' = after.committed
              /\ nextId' = nextId + Len(c.embeddings)
              /\ sess' = [sess EXCEPT
                    ![s].pc = "loop",
                    ![s].pend = after.pend,
                    ![s].embeddings = <<>>,
                    ![s].tx = "active",
                    ![s].flushes = c.flushes + 1,
                    ![s].created_ids =
                        ExtendIds(c.created_ids, NewIds(c.embeddings, nextId)),
                    ![s].i = c.i + c.batch_size]

\* await session.commit()
InsertCommit(s) ==
    LET c == sess[s]
    IN  /\ c.pc = "commit"
        /\ \/ /\ Raise(s, "DBAPIError", 0)
              /\ UNCHANGED <<committed, nextId, projects, documents, appVars>>
           \/ /\ committed' = committed \cup c.pend
              /\ sess' = [sess EXCEPT ![s].pc = "log", ![s].pend = {},
                                      ![s].tx = "none"]
              /\ UNCHANGED <<nextId, projects, documents, appVars>>

\* elapsed = time.time() - start_time; logger.info(f"... {len/elapsed:.0f}");
\* return created_ids.  Two readings of the clock may be equal.
InsertLog(s) ==
    /\ sess[s].pc = "log"
    /\ \E elapsed \in 0..1 :
          IF elapsed = 0
          THEN Raise(s, "ZeroDivisionError", 0)
          ELSE sess' = [sess EXCEPT ![s].pc = "returned"]
    /\ UNCHANGED <<committed, nextId, projects, documents, appVars>>

----------------------------------------------------------------------------
(* Fetching an embedding by id: select(Embedding).where(Embedding.id == id) *)
(* and scalar_one().                                                        *)

\* The Embedding objects a session holds after its insert_embeddings call
\* has returned (expire_on_commit=False): id -> the record it was made of.
Held(s) ==
    IF sess[s].op = "insert" /\ sess[s].pc = "returned"
    THEN {<<sess[s].created_ids[k], sess[s].data[k]>> :
            k \in 1..Min(Len(sess[s].created_ids), Len(sess[s].data))}
    ELSE {}

\* In the session that made the object the query hands back that very
\* object, its attributes as the constructor got them; in any other
\* session the row is loaded and the column converted.
FetchById(s, id) ==
    /\ sess[s].pc = "idle" \/ (sess[s].op = "insert" /\ sess[s].pc = "returned")
    /\ \/ /\ \E h \in Held(s) : h[1] = id
          /\ \E h \in Held(s) :
                /\ h[1] = id
                /\ sess' = [sess EXCEPT ![s].pc = "fetched",
                                        ![s].args = [id |-> id],
                                        ![s].result = <<h[2].metadata>>]
       \/ /\ ~\E h \in Held(s) : h[1] = id
          /\ \E r \in Visible(s) :
                /\ r.id = id
                /\ sess' = [sess EXCEPT ![s].pc = "fetched",
                                        ![s].args = [id |-> id],
                                        ![s].tx = "active",
                                        ![s].result =
                                            <<FromJsonb(r.embedding_metadata)>>]
       \/ /\ ~\E h \in Held(s) : h[1] = id
          /\ ~\E r \in Visible(s) : r.id = id
          /\ sess' = [sess EXCEPT ![s].pc = "raised",
                                  ![s].args = [id |-> id],
                                  ![s].tx = "active",
                                  ![s].err = "NoResultFound"]
    /\ UNCHANGED <<committed, nextId, projects, documents, appVars>>

----------------------------------------------------------------------------
(* Projects and documents: rows created and deleted by other clients, each *)
(* statement committed at once.                                            *)

\* INSERT INTO projects
CreateProject(p) ==
    /\ p \notin projects
    /\ projects' = projects \cup {p}
    /\ UNCHANGED <<committed, sess, nextId, documents, appVars>>

\* INSERT INTO documents: ForeignKey("projects.id") wants the project.
CreateDocument(d) ==
    /\ d \notin documents
    /\ Document(d).project_id \in projects
    /\ documents' = documents \cup {d}
    /\ UNCHANGED <<committed, sess, nextId, projects, appVars>>

\* Project.documents: the documents of a project
DocumentsOf(p, docs) == {d \in docs : Document(d).project_id = p}

\* No cascade from documents to embeddings: no embedding goes.
EmbeddingsOfNone(ds, rows) == {}

\* Document.embeddings: the embeddings of some documents
EmbeddingsOf(ds, rows) == {e \in rows : e.document_id \in ds}

\* An INSERT into embeddings holds a key-share lock on the document row it
\* refers to until its transaction ends: a DELETE of that row waits.
LockedDocuments == {r.document_id : r \in UNION {sess[s].pend : s \in Sessions}}

\* DELETE FROM documents WHERE id = d, with ON DELETE CASCADE on
\* embeddings.document_id (cascade="all, delete-orphan" in the ORM).
DeleteDocument(d) ==
    /\ d \in documents
    /\ d \notin LockedDocuments
    /\ documents' = documents \ {d}
    /\ committed' = committed \ EmbeddingsOf({d}, committed)
    /\ UNCHANGED <<sess, nextId, projects, appVars>>

\* DELETE FROM projects WHERE id = p, with ON DELETE CASCADE on
\* documents.project_id and, through it, on embeddings.document_id.
DeleteProject(p) ==
    /\ p \in projects
    /\ DocumentsOf(p, documents) \cap LockedDocuments = {}
    /\ projects' = projects \ {p}
    /\ documents' = documents \ DocumentsOf(p, documents)
    /\ committed' = committed \ EmbeddingsOf(DocumentsOf(p, documents), committed)
    /\ UNCHANGED <<sess, nextId, appVars>>

----------------------------------------------------------------------------
(* Distances: the pgvector operators <=> and <-> *)

Dot(a, b) == a[1] * b[1] + a[2] * b[2]

\* The vectors used all have an integer norm.
Norm(p) == CHOOSE n \in 0..10 : n * n = Dot(p, p)

RECURSIVE Bisect(_, _, _)
Bisect(x, lo, hi) ==
    IF lo = hi THEN lo
    ELSE LET mid == (lo + hi + 1) \div 2
         IN  IF mid * mid <= x THEN Bisect(x, mid, hi) ELSE Bisect(x, lo, mid - 1)

\* Square root of a fixed-point number, rounded down.
Sqrt(x) == Bisect(x * Scale, 0, 20 * Scale)

\* a <=> b: 1 - cos(a, b)
CosineDistance(a, b) == Scale - (Scale * Dot(a, b)) \div (Norm(a) * Norm(b))

\* a <-> b: Euclidean distance
L2Distance(a, b) ==
    Sqrt(Scale * ((a[1] - b[1]) * (a[1] - b[1]) + (a[2] - b[2]) * (a[2] - b[2])))

\* "<=>" if metric == "cosine" else "<->"
Distance(metric, a, b) ==
    IF metric = "cosine" THEN CosineDistance(a.pt, b.pt) ELSE L2Distance(a.pt, b.pt)

\* The distance handed out as the score.
SimilarityIsDistance(metric, distance) == distance

\* similarity = 1 - distance, or 1 / (1 + distance)
Similarity(metric, distance) ==
    IF metric = "cosine" THEN Scale - distance
    ELSE (Scale * Scale) \div (Scale + distance)

----------------------------------------------------------------------------
(* Optional arguments, JSON values and their text *)

None == <<>>
Some(x) == <<x>>

Digit(d) ==
    CASE d = 0 -> "0" [] d = 1 -> "1" [] d = 2 -> "2" [] d = 3 -> "3"
      [] d = 4 -> "4" [] d = 5 -> "5" [] d = 6 -> "6" [] d = 7 -> "7"
      [] d = 8 -> "8" [] OTHER -> "9"

RECURSIVE Decimal(_)
Decimal(n) == IF n < 10 THEN Digit(n) ELSE Decimal(n \div 10) \o Digit(n % 10)

\* embedding_metadata[key].astext: the ->> operator on a JSON scalar
AsText(j) ==
    CASE j.t = "string" -> j.s
      [] j.t = "number" -> Decimal(j.n)
      [] OTHER -> IF j.b THEN "true" ELSE "false"

\* str(value) of the Python filter value
PyStr(v) ==
    CASE v.t = "string" -> v.s
      [] v.t = "number" -> Decimal(v.n)
      [] OTHER -> IF v.b THEN "True" ELSE "False"

\* embedding_metadata[key].astext == str(value); NULL (no match) when the
\* column holds no object or the object has no such key.
MetadataMatches(meta, key, value) ==
    /\ meta.kind = "object"
    /\ key \in DOMAIN meta.fields
    /\ AsText(meta.fields[key]) = PyStr(value)

----------------------------------------------------------------------------
(* The ranked query *)

\* The orders in which the engine may come upon the rows.
RECURSIVE RowOrders(_)
RowOrders(S) ==
    IF S = {} THEN {<<>>}
    ELSE UNION {{<<x>> \o p : p \in RowOrders(S \ {x})} : x \in S}

\* rows of `order` (the engine's row order) that are in `keep`
RECURSIVE Scan(_, _)
Scan(order, keep) ==
    IF order = <<>> THEN <<>>
    ELSE IF Head(order) \in keep
         THEN <<Head(order)>> \o Scan(Tail(order), keep)
         ELSE Scan(Tail(order), keep)

RECURSIVE Place(_, _, _, _)
Place(r, sorted, metric, q) ==
    IF sorted = <<>> THEN <<r>>
    ELSE IF Distance(metric, r.embedding, q) <= Distance(metric, Head(sorted).embedding, q)
         THEN <<r>> \o sorted
         ELSE <<Head(sorted)>> \o Place(r, Tail(sorted), metric, q)

\* The statement without its ORDER BY: the rows as the engine finds them.
Unordered(rows, metric, q) == rows

\* ORDER BY distance ASC
RECURSIVE OrderByDistance(_, _, _)
OrderByDistance(rows, metric, q) ==
    IF rows = <<>> THEN <<>>
    ELSE Place(Head(rows), OrderByDistance(Tail(rows), metric, q), metric, q)

\* LIMIT :limit
Limit(rows, limit) == SubSeq(rows, 1, Min(limit, Len(rows)))

\* Python truth of the optional arguments
ThresholdGiven(a) == a.similarity_threshold # None /\ a.similarity_threshold[1] # 0
ProjectGiven(a) == a.project_id # None
FileTypesGiven(a) == a.file_types # None /\ a.file_types[1] # <<>>
MetadataGiven(a) == a.metadata_filters # None /\ a.metadata_filters[1] # <<>>

\* WHERE e.embedding <op> :query_vector < :threshold, when a threshold is given
ThresholdWhere(rows, a) ==
    IF ThresholdGiven(a)
    THEN {r \in rows :
            Distance(a.metric, r.embedding, a.query_vector) < a.similarity_threshold[1]}
    ELSE rows

\* query.filter(and_(*filters))
FilterWhere(rows, a) ==
    {r \in rows :
        /\ ProjectGiven(a) => Document(r.document_id).project_id = a.project_id[1]
        /\ FileTypesGiven(a) =>
              \E k \in 1..Len(a.file_types[1]) :
                  Document(r.document_id).file_type = a.file_types[1][k]
        /\ MetadataGiven(a) =>
              \A k \in 1..Len(a.metadata_filters[1]) :
                  MetadataMatches(r.embedding_metadata,
                                  a.metadata_filters[1][k][1],
                                  a.metadata_filters[1][k][2])}

\* One result dictionary of similarity_search.
SearchResult(r, a) ==
    LET d == Distance(a.metric, r.embedding, a.query_vector)
    IN  [id |-> r.id,
         document_id |-> r.document_id,
         project_id |-> Document(r.document_id).project_id,
         file_path |-> Document(r.document_id).file_path,
         chunk_index |-> r.chunk_index,
         chunk_text |-> r.chunk_text,
         metadata |-> r.embedding_metadata,
         similarity |-> Similarity(a.metric, d),
         distance |-> d]

\* One result dictionary of vector_search_with_filters.
FilteredResult(r, a) ==
    LET d == Distance(a.metric, r.embedding, a.query_vector)
    IN  [id |-> r.id,
         document_id |-> r.document_id,
         project_id |-> Document(r.document_id).project_id,
         file_path |-> Document(r.document_id).file_path,
         file_type |-> Document(r.document_id).file_type,
         chunk_index |-> r.chunk_index,
         chunk_text |-> r.chunk_text,
         metadata |-> r.embedding_metadata,
         similarity |-> Similarity(a.metric, d),
         distance |-> d]

\* The rows the statement of similarity_search selects, in order.
SimilarityRows(rows, order, a) ==
    Limit(OrderByDistance(Scan(order, ThresholdWhere(rows, a)),
                          a.metric, a.query_vector),
          a.limit)

\* The rows the statement of vector_search_with_filters selects, in order.
FilteredRows(rows, order, a) ==
    Limit(OrderByDistance(Scan(order, FilterWhere(rows, a)),
                          a.metric, a.query_vector),
          a.limit)

\* The engine refuses the statement: a negative LIMIT, or an operand of <=>
\* or <-> whose dimension is not the column's.
Refused(candidates, a) ==
    \/ a.limit < 0
    \/ candidates # {} /\ a.query_vector.len # Dim

\* An exception that leaves the function: neither search function catches
\* anything, so nothing is rolled back and the transaction of the failed
\* statement stays as the storage left it.
Propagate(s, e, sent) ==
    sess' = [sess EXCEPT ![s].pc = "raised",
                         ![s].err = e,
                         ![s].tx = "aborted",
                         ![s].executes = sess[s].executes + sent]

----------------------------------------------------------------------------
(* similarity_search *)

SearchArgs(q, limit, metric, threshold) ==
    [query_vector |-> q, limit |-> limit, metric |-> metric,
     similarity_threshold |-> threshold]

\* The call up to the await of session.execute: the dimension check.
SimilaritySearchCall(s, a) ==
    /\ sess[s].pc = "idle"
    /\ IF ~ValidDimension(a.query_vector)
       THEN sess' = [sess EXCEPT ![s].pc = "raised", ![s].op = "search",
                                 ![s].args = a, ![s].err = "ValueError"]
       ELSE sess' = [sess EXCEPT ![s].pc = "execute", ![s].op = "search",
                                 ![s].args = a]
    /\ UNCHANGED <<committed, nextId, projects, documents, appVars>>

\* await session.execute(text(query), params), the formatting of the rows
\* and the log lines; elapsed > 100 gives the warning.
SimilaritySearchExecute(s) ==
    LET c == sess[s]
        a == c.args
    IN  /\ c.pc = "execute" /\ c.op = "search"
        /\ \/ Propagate(s, "DBAPIError", 1)          \* connection lost
           \/ /\ Refused(ThresholdWhere(Visible(s), a), a)
              /\ Propagate(s, "DBAPIError", 1)
           \/ /\ ~Refused(ThresholdWhere(Visible(s), a), a)
              /\ \E order \in RowOrders(Visible(s)) : \E slow \in BOOLEAN :
                    LET rows == SimilarityRows(Visible(s), order, a)
                    IN  sess' = [sess EXCEPT
                            ![s].pc = "returned",
                            ![s].executes = c.executes + 1,
                            ![s].tx = "active",
                            ![s].slow = slow,
                            ![s].warned = slow,
                            ![s].result =
                                [k \in 1..Len(rows) |-> SearchResult(rows[k], a)]]
        /\ UNCHANGED <<committed, nextId, projects, documents, appVars>>

----------------------------------------------------------------------------
(* vector_search_with_filters *)

FilterArgs(q, limit, metric, project, types, meta) ==
    [query_vector |-> q, limit |-> limit, metric |-> metric,
     project_id |-> project, file_types |-> types, metadata_filters |-> meta]

\* The call up to the await of session.execute: the statement is built, the
\* query vector is not looked at.
FilteredSearchCall(s, a) ==
    /\ sess[s].pc = "idle"
    /\ sess' = [sess EXCEPT ![s].pc = "execute", ![s].op = "filter",
                            ![s].args = a]
    /\ UNCHANGED <<committed, nextId, projects, documents, appVars>>

\* await session.execute(query, {"query_vector": ...}), the formatting of
\* the rows and the log line; elapsed is logged at info level whatever its
\* value (slow stands for elapsed > 100).
FilteredSearchExecute(s) ==
    LET c == sess[s]
        a == c.args
    IN  /\ c.pc = "execute" /\ c.op = "filter"
        /\ \/ Propagate(s, "DBAPIError", 1)          \* connection lost
           \/ /\ Refused(FilterWhere(Visible(s), a), a)
              /\ Propagate(s, "DBAPIError", 1)
           \/ /\ ~Refused(FilterWhere(Visible(s), a), a)
              /\ \E order \in RowOrders(Visible(s)) : \E slow \in BOOLEAN :
                    LET rows == FilteredRows(Visible(s), order, a)
                    IN  sess' = [sess EXCEPT
                            ![s].pc = "returned",
                            ![s].executes = c.executes + 1,
                            ![s].tx = "active",
                            ![s].slow = slow,
                            ![s].result =
                                [k \in 1..Len(rows) |-> FilteredResult(rows[k], a)]]
        /\ UNCHANGED <<committed, nextId, projects, documents, appVars>>

----------------------------------------------------------------------------
(* Inputs *)

Records(docs, chunks, vectors) ==
    [document_id : docs, chunk_index : chunks, chunk_text : {"chunk"},
     embedding : vectors, metadata : {PyNone}]

SeqsUpTo(S, n) == UNION {[1..k -> S] : k \in 0..n}

\* One call alone: valid and 100-component vectors, three chunk indices.
InsertRecords ==
    Records({"d1"}, 0..2, {Vec(Dim, <<5, 0>>), Vec(100, <<5, 0>>)})

\* Two calls at once: valid vectors, two chunk indices.
ConcRecords == Records({"d1"}, 0..1, {Vec(Dim, <<5, 0>>)})

\* Two calls at once that share no pair: the second writes other chunks of
\* the same document.
OtherRecords == Records({"d1"}, 2..3, {Vec(Dim, <<5, 0>>)})

\* One call while documents come and go: one chunk of each of two documents
\* of different projects.
SchemaRecords == Records({"d1", "d2"}, 0..0, {Vec(Dim, <<5, 0>>)})

\* Metadata maps: flat, of several keys, nested with a list, and empty.
MetadataMaps ==
    {PyDict(<< <<"lang", JString("py")>> >>),
     PyDict(<< <<"tokens", JNumber(150)>>, <<"source", JString("test")>>,
               <<"draft", JBool(FALSE)>>, <<"note", PyNone>> >>),
     PyDict(<< <<"nested",
                 PyDict(<< <<"key", JString("value")>>,
                           <<"array",
                             PyList(<<JNumber(1), JNumber(2), JNumber(3)>>)>> >>)>>,
               <<"language", JString("python")>> >>),
     PyDict(<< >>)}

\* One call whose records carry metadata.
MetadataRecords ==
    [document_id : {"d1"}, chunk_index : 0..1, chunk_text : {"chunk"},
     embedding : {Vec(Dim, <<5, 0>>)}, metadata : MetadataMaps]

\* A row an earlier, successful call left behind.
SeedRow ==
    EmbeddingRow([document_id |-> "d1", chunk_index |-> 0,
                  chunk_text |-> "chunk", embedding |-> Vec(Dim, <<4, 3>>),
                  metadata |-> PyNone], 1)

\* Stored rows for the searches: what earlier successful calls may have
\* left, two or three possible rows for each of three (document_id,
\* chunk_index); the metadata maps hold strings, numbers and booleans, and a
\* number kept as a string.
Stored(id, doc, chunk, pt, meta) ==
    [EmbeddingRow([document_id |-> doc, chunk_index |-> chunk,
                   chunk_text |-> "chunk", embedding |-> Vec(Dim, pt),
                   metadata |-> PyNone], id)
        EXCEPT !.embedding_metadata = meta]

StoredRows ==
    {Stored(1, "d1", 0, <<5, 0>>, Object([lang |-> JString("py")])),
     Stored(1, "d1", 0, <<4, 3>>, NoMetadata),
     Stored(2, "d1", 1, <<4, 3>>,
            Object([lang |-> JString("py"), tokens |-> JNumber(150)])),
     Stored(2, "d1", 1, <<10, 0>>, Object([lang |-> JString("md")])),
     Stored(3, "d2", 0, <<0, 5>>, Object([flag |-> JBool(TRUE)])),
     Stored(3, "d2", 0, <<5, 0>>, Object([lang |-> JString("py")])),
     Stored(3, "d2", 0, <<4, 3>>, Object([tokens |-> JString("150")]))}

Corpora ==
    {S \in SUBSET StoredRows :
        \A a \in S : \A b \in S : Pair(a) = Pair(b) => a = b}

Metrics == {"cosine", "l2"}

SearchCalls ==
    {SearchArgs(q, limit, metric, threshold) :
        q \in {Vec(Dim, <<5, 0>>), Vec(Dim, <<0, 5>>)} \cup BadVectors,
        limit \in -1..MaxLimit,
        metric \in Metrics,
        threshold \in {None, Some(0), Some(15), Some(90)}}

FilterCalls ==
    {FilterArgs(q, limit, metric, project, types, meta) :
        q \in {Vec(Dim, <<5, 0>>), Vec(100, <<5, 0>>)},
        limit \in -1..MaxLimit,
        metric \in Metrics,
        project \in {None, Some("p1"), Some("p2")},
        types \in {None, Some(<<>>), Some(<<"python">>)},
        meta \in {None,
                  Some(<< <<"lang", JString("py")>> >>),
                  Some(<< <<"flag", JBool(TRUE)>> >>),
                  Some(<< <<"tokens", JNumber(150)>> >>),
                  Some(<< <<"lang", JString("py")>>, <<"tokens", JNumber(150)>> >>)}}

----------------------------------------------------------------------------
(* app/db/base.py: the lazy engine *)

\* Engines are numbered in order of creation; the model stops creating
\* engines at this number.
MaxEngines == 3

\* The module after import: LazyEngine._engine is None (0), no engine was
\* created.  `bind` is the engine of the sessionmaker async_session()
\* returned last, `op` the operation that ran last and `err` its exception.
EngineIdle ==
    [_engine |-> 0, created |-> 0, disposed |-> {}, bind |-> 0,
     op |-> "import", err |-> "none"]

\* create_engine(): every call that returns builds a new engine; reading the
\* settings may raise instead.
create_engine(e, ok) ==
    IF ok THEN [e EXCEPT !.created = @ + 1, !.err = "none"]
    ELSE [e EXCEPT !.err = "AttributeError"]

\* `if self._engine is None: self._engine = create_engine()`.
LazyCreate(e, ok) ==
    IF e._engine # 0 THEN [e EXCEPT !.err = "none"]
    ELSE IF ok THEN [create_engine(e, TRUE) EXCEPT !._engine = e.created + 1]
    ELSE create_engine(e, FALSE)

\* async_session(): binds the sessionmaker to the lazy engine when there is
\* one, and otherwise to a fresh engine that is stored nowhere.
async_session(e, ok) ==
    IF e._engine # 0 THEN [e EXCEPT !.bind = e._engine, !.err = "none"]
    ELSE IF ok THEN [create_engine(e, TRUE) EXCEPT !.bind = e.created + 1]
    ELSE [create_engine(e, FALSE) EXCEPT !.bind = 0]

\* LazyEngine.dispose(): disposes the stored engine, if any, and keeps it.
dispose(e) ==
    IF e._engine # 0 THEN [e EXCEPT !.disposed = @ \cup {e._engine}, !.err = "none"]
    ELSE [e EXCEPT !.err = "none"]

\* An engine is created only while fewer than MaxEngines exist.
MayCreate(ok) == (ok /\ engine._engine = 0) => engine.created < MaxEngines

\* engine.<name>: LazyEngine.__getattr__.
EngineGetattr ==
    \E ok \in BOOLEAN :
        /\ MayCreate(ok)
        /\ engine' = [LazyCreate(engine, ok) EXCEPT !.op = "__getattr__"]
        /\ UNCHANGED <<dbVars, dep, health, settings, request, hook>>

\* await engine.begin(): LazyEngine.begin, run to its return.
EngineBegin ==
    \E ok \in BOOLEAN :
        /\ MayCreate(ok)
        /\ engine' = [LazyCreate(engine, ok) EXCEPT !.op = "begin"]
        /\ UNCHANGED <<dbVars, dep, health, settings, request, hook>>

\* async_session() called on its own.
AsyncSession ==
    \E ok \in BOOLEAN :
        /\ MayCreate(ok)
        /\ engine' = [async_session(engine, ok) EXCEPT !.op = "async_session"]
        /\ UNCHANGED <<dbVars, dep, health, settings, request, hook>>

\* dispose_engine().
DisposeEngine ==
    /\ engine' = [dispose(engine) EXCEPT !.op = "dispose_engine"]
    /\ UNCHANGED <<dbVars, dep, health, settings, request, hook>>

----------------------------------------------------------------------------
(* app/db/base.py: the get_db dependency *)

\* One use of get_db.  `bind` is the engine of its session (0: no session
\* was handed out), `pending` whether the body left work in the open
\* transaction, `stored` whether that work became durable, `exc` the
\* exception in flight and `raised` the one that reached the caller.
DepIdle ==
    [pc |-> "idle", bind |-> 0, body |-> "none", pending |-> FALSE,
     tx |-> "none", stored |-> FALSE, commits |-> 0, rollbacks |-> 0,
     closed |-> FALSE, exc |-> "none", raised |-> "none"]

\* Where get_db continues when the body that holds the session has ended
\* with a given result: the commit after the yield, the `except Exception`
\* clause, or the `finally` clause alone.  "BaseException" stands for an
\* exception outside Exception, such as the cancellation of the request.
AfterBodyCommits(result) == "commit"

AfterBody(result) ==
    CASE result = "ok" -> "commit"
      [] result = "Exception" -> "except"
      [] OTHER -> "finally"

\* session_factory = async_session(); async with session_factory() as
\* session: ... yield session.
GetDbOpen ==
    /\ dep.pc = "idle"
    /\ \E ok \in BOOLEAN :
        /\ MayCreate(ok)
        /\ engine' = [async_session(engine, ok) EXCEPT !.op = "get_db"]
        /\ dep' = IF engine'.bind = 0
                  THEN [dep EXCEPT !.pc = "done", !.raised = engine'.err]
                  ELSE [dep EXCEPT !.pc = "yielded", !.bind = engine'.bind]
    /\ UNCHANGED <<dbVars, health, settings, request, hook>>

\* The request body runs with the session and ends.
GetDbBody ==
    /\ dep.pc = "yielded"
    /\ \E result \in {"ok", "Exception", "BaseException"} : \E wrote \in BOOLEAN :
        dep' = [dep EXCEPT !.pc = AfterBody(result), !.body = result,
                           !.tx = "active", !.pending = wrote,
                           !.exc = IF result = "ok" THEN "none" ELSE "body"]
    /\ UNCHANGED <<dbVars, engine, health, settings, request, hook>>

\* await session.commit().
GetDbCommit ==
    /\ dep.pc = "commit"
    /\ \E result \in {"ok", "Exception"} :
        dep' = IF result = "ok"
               THEN [dep EXCEPT !.pc = "finally", !.tx = "committed",
                                !.stored = dep.pending, !.pending = FALSE,
                                !.commits = @ + 1]
               ELSE [dep EXCEPT !.pc = "except", !.exc = "commit"]
    /\ UNCHANGED <<dbVars, engine, health, settings, request, hook>>

\* except Exception: await session.rollback(); raise.
GetDbRollback ==
    /\ dep.pc = "except"
    /\ dep' = [dep EXCEPT !.pc = "finally", !.tx = "rolled back",
                          !.pending = FALSE, !.rollbacks = @ + 1]
    /\ UNCHANGED <<dbVars, engine, health, settings, request, hook>>

\* finally: await session.close().  Closing a session whose transaction is
\* still open discards that transaction.
GetDbClose ==
    /\ dep.pc = "finally"
    /\ dep' = [dep EXCEPT !.pc = "done", !.closed = TRUE,
                          !.tx = IF @ = "active" THEN "rolled back" ELSE @,
                          !.pending = FALSE, !.raised = dep.exc]
    /\ UNCHANGED <<dbVars, engine, health, settings, request, hook>>

\* The next request asks for a session.
GetDbNext ==
    /\ dep.pc = "done"
    /\ dep' = DepIdle
    /\ UNCHANGED <<dbVars, engine, health, settings, request, hook>>

----------------------------------------------------------------------------
(* app/db/base.py and app/main.py: the health probe *)

HealthIdle ==
    [pc |-> "idle", db_up |-> FALSE, vector |-> FALSE, result |-> FALSE,
     raised |-> "none", logged |-> "none", status |-> "none"]

\* `engine.begin()` in check_database_health: LazyEngine.begin is a
\* coroutine function and the call is not awaited, so its value is a
\* coroutine object and no line of begin has run.
BeginCall == "coroutine"

\* `async with <value> as conn`: only an asynchronous context manager can be
\* entered; anything else raises TypeError.
AsyncWith(value) == IF value = "context manager" THEN "entered" ELSE "TypeError"

\* check_database_health() against a database that is reachable or not and
\* has the vector extension or not: the value returned, the exception that
\* escaped and the log line written.
check_database_health(db_up, vector) ==
    IF AsyncWith(BeginCall) # "entered"
    THEN [result |-> FALSE, raised |-> "none", logged |-> "error"]
    ELSE IF ~db_up
    THEN [result |-> FALSE, raised |-> "none", logged |-> "error"]
    ELSE IF ~vector
    THEN [result |-> FALSE, raised |-> "none", logged |-> "warning"]
    ELSE [result |-> TRUE, raised |-> "none", logged |-> "info"]

\* GET /health awaits check_database_health().
HealthCheck ==
    /\ health.pc = "idle"
    /\ \E db_up \in BOOLEAN : \E vector \in BOOLEAN :
        LET r == check_database_health(db_up, vector) IN
        health' = [health EXCEPT !.pc = "checked", !.db_up = db_up,
                                 !.vector = vector, !.result = r.result,
                                 !.raised = r.raised, !.logged = r.logged]
    /\ UNCHANGED <<dbVars, engine, dep, settings, request, hook>>

\* GET /health builds its answer: the cache and the vector stores are
\* placeholders that are always healthy.
HealthRespond ==
    /\ health.pc = "checked"
    /\ LET redis_healthy == TRUE
           vector_stores_healthy == TRUE
           overall_healthy == health.result /\ redis_healthy /\ vector_stores_healthy
       IN health' = [health EXCEPT !.pc = "responded",
                        !.status = IF overall_healthy THEN "healthy" ELSE "unhealthy"]
    /\ UNCHANGED <<dbVars, engine, dep, settings, request, hook>>

\* The next probe.
HealthNext ==
    /\ health.pc = "responded"
    /\ health' = HealthIdle
    /\ UNCHANGED <<dbVars, engine, dep, settings, request, hook>>

----------------------------------------------------------------------------
(* app/core/config.py: the settings accessor *)

\* The number of get_settings() and reset_settings() calls followed.
MaxCalls == 5

\* `_settings: Settings | None = None`.  Instances are numbered in order of
\* construction (0: None).  `calls` is the history of the accessor: the
\* instance each get_settings() returned, -1 for a get_settings() that
\* raised, 0 for a reset_settings().
SettingsIdle == [_settings |-> 0, made |-> 0, calls |-> <<>>]

\* get_settings(): constructs Settings() only while the slot is None; the
\* construction raises when the environment does not validate.
get_settings(s, valid) ==
    IF s._settings # 0 THEN [s EXCEPT !.calls = Append(@, s._settings)]
    ELSE IF valid
    THEN [s EXCEPT !._settings = s.made + 1, !.made = @ + 1,
                   !.calls = Append(@, s.made + 1)]
    ELSE [s EXCEPT !.calls = Append(@, -1)]

\* reset_settings(): `_settings = None`.
reset_settingsKeeps(s) == [s EXCEPT !.calls = Append(@, 0)]

reset_settings(s) == [s EXCEPT !._settings = 0, !.calls = Append(@, 0)]

GetSettings ==
    /\ Len(settings.calls) < MaxCalls
    /\ \E valid \in BOOLEAN : settings' = get_settings(settings, valid)
    /\ UNCHANGED <<dbVars, engine, dep, health, request, hook>>

ResetSettings ==
    /\ Len(settings.calls) < MaxCalls
    /\ settings' = reset_settings(settings)
    /\ UNCHANGED <<dbVars, engine, dep, health, request, hook>>

----------------------------------------------------------------------------
(* app/main.py and app/middleware: a request through the middleware stack *)

\* The number of requests followed.
MaxRequests == 2

\* A header the request does not carry; request.state before it is set.
Absent == "<absent>"

\* str(uuid.uuid4()): no two calls return the same value.
uuid4(n) == "uuid-" \o Decimal(n)

\* The correlation headers a request may carry.  Header names do not depend
\* on case, so the configured X-Correlation-ID and x-correlation-id are one
\* header; it may be there with an empty value.
Requests ==
    [correlation : {Absent, "", "c-1"}, request_id : {Absent, "r-1"},
     trace : {Absent, "t-1"}]

\* create_application adds CorrelationIdMiddleware and then
\* LoggingMiddleware; add_middleware puts each new middleware in front of
\* those added before, so the stack runs outermost first in this order.
MiddlewareStack == <<"LoggingMiddleware", "CorrelationIdMiddleware">>

\* request.headers.get(name, default)
HeadersGet(headers, name, default) ==
    IF headers[name] = Absent THEN default ELSE headers[name]

\* `for header in headers_to_check`: the first header of the list that holds
\* a non-empty value, or None.
RECURSIVE FirstValue(_, _, _)
FirstValue(headers, names, k) ==
    IF k > Len(names) THEN Absent
    ELSE IF HeadersGet(headers, names[k], "") # "" THEN headers[names[k]]
    ELSE FirstValue(headers, names, k + 1)

\* CorrelationIdMiddleware._get_correlation_id_from_headers: the configured
\* name, its lower case, x-correlation-id, x-request-id, x-trace-id.
GetCorrelationIdFromHeaders(headers) ==
    FirstValue(headers,
               <<"correlation", "correlation", "correlation", "request_id", "trace">>,
               1)

\* One request.  `outer` is the correlation_id local of
\* LoggingMiddleware.dispatch and `inner` the one of
\* CorrelationIdMiddleware.dispatch; `context` is the correlation id bound in
\* the logging context of the code that is running; `state` is
\* request.state.correlation_id; `logs` lists, per log entry emitted for the
\* request, its event and the correlation id bound to it; `header` is the
\* X-Correlation-ID header of the response; `uuids` counts the uuid4() calls
\* made for correlation ids and `served` the requests answered.
RequestIdle ==
    [pc |-> "idle", headers |-> [correlation |-> Absent, request_id |-> Absent,
                                 trace |-> Absent],
     outer |-> Absent, inner |-> Absent, context |-> Absent, state |-> Absent,
     logs |-> <<>>, header |-> Absent, uuids |-> 0, served |-> 0]

Log(r, event, id) == Append(r.logs, [event |-> event, correlation_id |-> id])

\* A request reaches the outermost middleware of the stack.
Receive ==
    /\ request.pc = "idle"
    /\ request.served < MaxRequests
    /\ \E h \in Requests :
        request' = [RequestIdle EXCEPT !.pc = MiddlewareStack[1], !.headers = h,
                                       !.uuids = request.uuids,
                                       !.served = request.served]
    /\ UNCHANGED <<dbVars, engine, dep, health, settings, hook>>

\* LoggingMiddleware.dispatch up to call_next: the id is the value of the
\* configured header, and the default of headers.get, a new uuid, is
\* computed whether the header is there or not.
LoggingEnter ==
    /\ request.pc = "LoggingMiddleware"
    /\ LET generated == uuid4(request.uuids + 1)
           correlation_id == HeadersGet(request.headers, "correlation", generated)
       IN request' = [request EXCEPT !.pc = MiddlewareStack[2],
                                     !.uuids = @ + 1,
                                     !.outer = correlation_id,
                                     !.context = correlation_id,
                                     !.logs = Log(request, "request_started", correlation_id)]
    /\ UNCHANGED <<dbVars, engine, dep, health, settings, hook>>

\* CorrelationIdMiddleware.dispatch up to call_next
\* (generate_id_if_missing=True).
CorrelationEnter ==
    /\ request.pc = "CorrelationIdMiddleware"
    /\ LET existing == GetCorrelationIdFromHeaders(request.headers)
           correlation_id == IF existing # Absent THEN existing
                             ELSE uuid4(request.uuids + 1)
       IN request' = [request EXCEPT !.pc = "handler",
                                     !.uuids = IF existing # Absent THEN @ ELSE @ + 1,
                                     !.inner = correlation_id,
                                     !.state = correlation_id,
                                     !.context = correlation_id]
    /\ UNCHANGED <<dbVars, engine, dep, health, settings, hook>>

\* The route handler runs, logs under the context it inherited, and
\* returns a response or raises.
Handle ==
    /\ request.pc = "handler"
    /\ \E raises \in BOOLEAN :
        request' = [request EXCEPT !.pc = IF raises THEN "raising" ELSE "returning",
                                   !.logs = Log(request, "handler", request.context)]
    /\ UNCHANGED <<dbVars, engine, dep, health, settings, hook>>

\* CorrelationIdMiddleware.dispatch after call_next:
\* response.headers[self.header_name] = correlation_id.
CorrelationExit ==
    /\ request.pc = "returning"
    /\ request' = [request EXCEPT !.pc = "completing", !.header = request.inner]
    /\ UNCHANGED <<dbVars, engine, dep, health, settings, hook>>

\* LoggingMiddleware.dispatch after call_next: logs under its own context
\* (what the inner middleware bound was bound in the inner task) and sets
\* the response header to its own correlation_id.
LoggingExit ==
    /\ request.pc = "completing"
    /\ request' = [request EXCEPT !.pc = "responded",
                                  !.context = request.outer,
                                  !.logs = Log(request, "request_completed", request.outer),
                                  !.header = request.outer,
                                  !.served = @ + 1]
    /\ UNCHANGED <<dbVars, engine, dep, health, settings, hook>>

\* The handler's exception passes CorrelationIdMiddleware, which has no
\* handler for it, and LoggingMiddleware logs it and raises it again: the
\* error response is built outside both and gets no header from them.
LoggingFail ==
    /\ request.pc = "raising"
    /\ request' = [request EXCEPT !.pc = "failed",
                                  !.context = request.outer,
                                  !.logs = Log(request, "request_failed", request.outer),
                                  !.served = @ + 1]
    /\ UNCHANGED <<dbVars, engine, dep, health, settings, hook>>

\* The connection is ready for the next request.
RequestDone ==
    /\ request.pc \in {"responded", "failed"}
    /\ request' = [request EXCEPT !.pc = "idle"]
    /\ UNCHANGED <<dbVars, engine, dep, health, settings, hook>>

----------------------------------------------------------------------------
(* scripts/prepare-commit-msg: the commit message hook *)

\* Texts are sequences of lines.  A line records the file it comes from, the
\* kind of its content (plain, a secret in clear, or a redaction marker)
\* and whether it is the output of sanitize_text.
MaxLines == 3

\* session_content[-800:] keeps the end of the session file: in the model,
\* its last TailLines lines.
TailLines == 2

Line(src, kind) == [src |-> src, kind |-> kind, sanitized |-> FALSE]

\* sanitize_text(text): every match of a sensitive pattern is replaced by a
\* [REDACTED...] marker; the rest of the text is kept.
sanitize_text(text) ==
    [k \in 1..Len(text) |->
        [text[k] EXCEPT !.kind = IF @ = "secret" THEN "redacted" ELSE @,
                        !.sanitized = TRUE]]

\* text[-n:]
LastLines(text, n) == SubSeq(text, IF Len(text) > n THEN Len(text) - n + 1 ELSE 1, Len(text))

\* generate_summary(diff_analysis, session_analysis): built from the names
\* and the number of the files in the diff; session_analysis is not read.
generate_summary == <<Line("diff", "plain")>>

\* try_ai_summary(diff_content, session_content) with or without an API
\* key: the prompt sent to the service, and the summary returned.  The
\* prompt holds the raw diff and the raw end of the session file; the reply
\* of the service quotes the last `quoted` lines of the prompt, and no
\* reply, an empty one or an error gives None (the empty text).
try_ai_summary(session_content, api_key, quoted) ==
    IF ~api_key THEN [sent |-> <<>>, summary |-> <<>>]
    ELSE LET prompt == <<Line("diff", "plain")>> \o
                       (IF session_content # <<>>
                        THEN LastLines(session_content, TailLines)
                        ELSE <<Line("prompt", "plain")>>)
         IN [sent |-> prompt, summary |-> LastLines(prompt, quoted)]

\* One run of the hook: the session file read, the prompt sent to the
\* summary service, the summary kept, the text written to the commit
\* message file.
HookIdle ==
    [pc |-> "idle", session |-> <<>>, sent |-> <<>>, summary |-> <<>>,
     written |-> <<>>]

\* main() up to the summary: returns at once when SKIP_SESSION_COMMIT is "1"
\* or there is no session file, and reads the file otherwise.
HookRead ==
    /\ hook.pc = "idle"
    /\ \/ hook' = [hook EXCEPT !.pc = "done"]
       \/ \E content \in SeqsUpTo({Line("session", "plain"), Line("session", "secret")},
                                  MaxLines) :
            hook' = [hook EXCEPT !.pc = "read", !.session = content]
    /\ UNCHANGED <<dbVars, engine, dep, health, settings, request>>

\* summary = try_ai_summary(diff_content, session_content), and the
\* rule-based summary when that one is empty.
HookSummarise ==
    /\ hook.pc = "read"
    /\ \E api_key \in BOOLEAN : \E quoted \in 0..TailLines :
        LET ai == try_ai_summary(hook.session, api_key, quoted) IN
        hook' = [hook EXCEPT !.pc = "summarised", !.sent = ai.sent,
                             !.summary = IF ai.summary # <<>> THEN ai.summary
                                         ELSE generate_summary]
    /\ UNCHANGED <<dbVars, engine, dep, health, settings, request>>

\* The commit message file is written: the summary, a blank line, the
\* sanitized session content.
HookWrite ==
    /\ hook.pc = "summarised"
    /\ hook' = [hook EXCEPT !.pc = "done",
                            !.written = hook.summary \o sanitize_text(hook.session)]
    /\ UNCHANGED <<dbVars, engine, dep, health, settings, request>>

\* The next commit.
HookNext ==
    /\ hook.pc = "done"
    /\ hook' = HookIdle
    /\ UNCHANGED <<dbVars, engine, dep, health, settings, request>>

----------------------------------------------------------------------------
(* The application outside the data-access layer, before anything ran *)

AppIdle ==
    /\ engine = EngineIdle
    /\ dep = DepIdle
    /\ health = HealthIdle
    /\ settings = SettingsIdle
    /\ request = RequestIdle
    /\ hook = HookIdle

----------------------------------------------------------------------------
(* Specifications *)

Closed == [Idle EXCEPT !.pc = "closed"]

\* Two sessions inserting concurrently into an empty table.
Init ==
    /\ committed = {}
    /\ sess = [s \in Sessions |-> Idle]
    /\ nextId = 1
    /\ projects = ProjectIds
    /\ documents = DocumentIds
    /\ AppIdle

Next ==
    \/ \E s \in Sessions : \E data \in SeqsUpTo(ConcRecords, ConcMaxN) :
          \E bs \in 1..ConcMaxN : InsertCall(s, data, bs)
    \/ \E s \in Sessions : InsertLoop(s)
    \/ \E s \in Sessions : InsertFlush(s)
    \/ \E s \in Sessions : InsertCommit(s)
    \/ \E s \in Sessions : InsertLog(s)

Spec == Init /\ [][Next]_vars

\* Two sessions inserting concurrently, each its own chunks of one document.
NextDisjoint ==
    \/ \E data \in SeqsUpTo(ConcRecords, ConcMaxN) :
          \E bs \in 1..ConcMaxN : InsertCall("s1", data, bs)
    \/ \E data \in SeqsUpTo(OtherRecords, ConcMaxN) :
          \E bs \in 1..ConcMaxN : InsertCall("s2", data, bs)
    \/ \E s \in Sessions : InsertLoop(s)
    \/ \E s \in Sessions : InsertFlush(s)
    \/ \E s \in Sessions : InsertCommit(s)
    \/ \E s \in Sessions : InsertLog(s)

SpecDisjoint == Init /\ [][NextDisjoint]_vars

\* The schema right after the migration: three empty tables.  Projects and
\* documents are created and deleted while one session inserts embeddings.
InitSchema ==
    /\ committed = {}
    /\ sess = [s \in Sessions |-> IF s = "s1" THEN Idle ELSE Closed]
    /\ nextId = 1
    /\ projects = {}
    /\ documents = {}
    /\ AppIdle

NextSchema ==
    \/ \E p \in ProjectIds : CreateProject(p)
    \/ \E d \in DocumentIds : CreateDocument(d)
    \/ \E p \in ProjectIds : DeleteProject(p)
    \/ \E d \in DocumentIds : DeleteDocument(d)
    \/ \E data \in SeqsUpTo(SchemaRecords, ConcMaxN) :
          \E bs \in 1..ConcMaxN : InsertCall("s1", data, bs)
    \/ InsertLoop("s1")
    \/ InsertFlush("s1")
    \/ InsertCommit("s1")
    \/ InsertLog("s1")

SpecSchema == InitSchema /\ [][NextSchema]_vars

\* One session inserts records with metadata; it and a second session fetch
\* embeddings by id.
NextRoundTrip ==
    \/ \E data \in SeqsUpTo(MetadataRecords, ConcMaxN) :
          \E bs \in 1..ConcMaxN : InsertCall("s1", data, bs)
    \/ InsertLoop("s1")
    \/ InsertFlush("s1")
    \/ InsertCommit("s1")
    \/ InsertLog("s1")
    \/ \E s \in Sessions : \E id \in 1..ConcMaxN : FetchById(s, id)

SpecRoundTrip == Init /\ [][NextRoundTrip]_vars

\* One session, one call, any batch_size, on an empty or a seeded table.
InitInsert ==
    /\ committed \in {{}, {SeedRow}}
    /\ sess = [s \in Sessions |-> IF s = "s1" THEN Idle ELSE Closed]
    /\ nextId = Cardinality(committed) + 1
    /\ projects = ProjectIds
    /\ documents = DocumentIds
    /\ AppIdle

NextInsert ==
    \/ \E data \in SeqsUpTo(InsertRecords, MaxN) :
          \E bs \in -1..MaxN : InsertCall("s1", data, bs)
    \/ InsertLoop("s1")
    \/ InsertFlush("s1")
    \/ InsertCommit("s1")
    \/ InsertLog("s1")

SpecInsert == InitInsert /\ [][NextInsert]_vars

\* One session searching a stored corpus with similarity_search.
InitSearch ==
    /\ committed \in Corpora
    /\ sess = [s \in Sessions |-> IF s = "s1" THEN Idle ELSE Closed]
    /\ nextId = 4
    /\ projects = ProjectIds
    /\ documents = DocumentIds
    /\ AppIdle

NextSearch ==
    \/ \E a \in SearchCalls : SimilaritySearchCall("s1", a)
    \/ SimilaritySearchExecute("s1")

SpecSearch == InitSearch /\ [][NextSearch]_vars

\* One session searching a stored corpus with vector_search_with_filters.
NextFilter ==
    \/ \E a \in FilterCalls : FilteredSearchCall("s1", a)
    \/ FilteredSearchExecute("s1")

SpecFilter == InitSearch /\ [][NextFilter]_vars

\* One session searching a stored corpus with either function.
NextSearches ==
    \/ \E a \in SearchCalls : SimilaritySearchCall("s1", a)
    \/ SimilaritySearchExecute("s1")
    \/ \E a \in FilterCalls : FilteredSearchCall("s1", a)
    \/ FilteredSearchExecute("s1")

SpecSearches == InitSearch /\ [][NextSearches]_vars

\* The application with no call of the data-access layer in flight.
InitApp ==
    /\ committed = {}
    /\ sess = [s \in Sessions |-> Closed]
    /\ nextId = 1
    /\ projects = {}
    /\ documents = {}
    /\ AppIdle

\* app/db/base.py: engine accesses, get_db uses, health probes and the
\* shutdown call, in any order.
NextBase ==
    \/ EngineGetattr
    \/ EngineBegin
    \/ AsyncSession
    \/ DisposeEngine
    \/ GetDbOpen
    \/ GetDbBody
    \/ GetDbCommit
    \/ GetDbRollback
    \/ GetDbClose
    \/ GetDbNext
    \/ HealthCheck
    \/ HealthRespond
    \/ HealthNext

SpecBase == InitApp /\ [][NextBase]_vars

\* app/core/config.py: get_settings() and reset_settings() in any order.
NextSettings ==
    \/ GetSettings
    \/ ResetSettings

SpecSettings == InitApp /\ [][NextSettings]_vars

\* Requests served one after the other by the application of
\* create_application.
NextRequest ==
    \/ Receive
    \/ LoggingEnter
    \/ CorrelationEnter
    \/ Handle
    \/ CorrelationExit
    \/ LoggingExit
    \/ LoggingFail
    \/ RequestDone

SpecRequest == InitApp /\ [][NextRequest]_vars

\* scripts/prepare-commit-msg/create_session_commit.py run at each commit.
NextHook ==
    \/ HookRead
    \/ HookSummarise
    \/ HookWrite
    \/ HookNext

SpecHook == InitApp /\ [][NextHook]_vars

----------------------------------------------------------------------------
(* Properties of insert_embeddings *)

Range(f) == {f[k] : k \in DOMAIN f}

Inserting(s) == sess[s].op = "insert"

HasBadVector(data) == \E k \in 1..Len(data) : data[k].embedding.len # Dim

\* The rows a call's input makes under the ids it was given.
RowsOfCall(data, ids) ==
    {EmbeddingRow(data[k], ids[k]) : k \in 1..Min(Len(data), Len(ids))}

\* C1: in every reachable state, also when calls on separate sessions
\* interleave and collide, no two stored embeddings share a
\* (document_id, chunk_index) pair.
C1_AtMostOnePerPair ==
    \A a \in committed : \A b \in committed : Pair(a) = Pair(b) => a = b

\* C1 witness: two calls that shared a pair have both ended, one stored
\* the pair and the other was refused.
C1_Witness ==
    \E s \in Sessions : \E t \in Sessions \ {s} :
        /\ sess[s].pc = "returned"
        /\ sess[t].pc = "raised" /\ sess[t].err = "IntegrityError"
        /\ \E j \in 1..Len(sess[s].data) : \E k \in 1..Len(sess[t].data) :
              Pair(sess[s].data[j]) = Pair(sess[t].data[k])
        /\ committed # {}

\* C2 (as claimed): a call given a vector whose length is not 1536 never
\* succeeds, when it raises the dimension error nothing of it stays in the
\* transaction, and no stored vector has another length than 1536.
C2_DimensionMismatchFails ==
    \A s \in Sessions :
        (Inserting(s) /\ HasBadVector(sess[s].data)) =>
            /\ sess[s].pc # "returned"
            /\ sess[s].err = "ValueError" => sess[s].pend = {}
            /\ \A r \in committed : r.embedding.len = Dim

\* C3 (as claimed): sub-batch k is committed before sub-batch k+1 is sent, so
\* a sub-batch is only ever flushed into an empty transaction and the open
\* transaction never holds more than batch_size records.
C3_ProgressiveCommit ==
    \A s \in Sessions :
        (Inserting(s) /\ sess[s].batch_size >= 1) =>
            /\ sess[s].pc = "flush" => sess[s].pend = {}
            /\ Cardinality(sess[s].pend) <= sess[s].batch_size

\* C3 (amended): the sub-batches are flushed in submission order inside one
\* transaction that is committed once, after the last flush: until then the
\* transaction holds exactly the records flushed so far, a prefix of the
\* input in input order, and none of them is committed; afterwards all are.
C3_OneTransactionInOrder ==
    \A s \in Sessions :
        Inserting(s) =>
            LET c == sess[s]
                sent == RowsOfCall(c.data, c.created_ids)
            IN  /\ Len(c.created_ids) <= Len(c.data)
                /\ c.pc \in {"loop", "flush", "commit"} =>
                      /\ c.pend = sent
                      /\ Cardinality(sent) = Len(c.created_ids)
                      /\ sent \cap committed = {}
                /\ c.pc \in {"log", "returned"} =>
                      /\ c.pend = {}
                      /\ sent \subseteq committed

\* C3 witness: three sub-batches of one record each are flushed and wait,
\* uncommitted, for the single commit.
C3_Witness ==
    \E s \in Sessions :
        /\ Inserting(s) /\ sess[s].pc = "commit"
        /\ sess[s].batch_size = 1
        /\ Cardinality(sess[s].pend) = 3

\* C4 (as claimed): when a call ends with the dimension-mismatch error, none
\* of its sub-batches was flushed before.
C4_RejectedBeforeAnyFlush ==
    \A s \in Sessions :
        (Inserting(s) /\ sess[s].err = "ValueError") => sess[s].flushes = 0

\* The sub-batch session s is about to flush repeats a pair that s can see,
\* or holds a pair twice.
HitsDuplicate(s) ==
    LET b == sess[s].embeddings
    IN  \/ \E k \in 1..Len(b) : \E r \in Visible(s) : Pair(b[k]) = Pair(r)
        \/ \E j \in 1..Len(b) : \E k \in 1..Len(b) :
              j # k /\ Pair(b[j]) = Pair(b[k])

\* C5: a flush that hits a duplicate pair never succeeds; the call ends
\* with IntegrityError exactly for a duplicate (never for another failure),
\* and then the transaction is rolled back and the stored rows, among them
\* the one that held the pair, are what they were.
C5_ConflictRollsBack ==
    [][\A s \in Sessions :
          (sess[s].pc = "flush" /\ sess'[s].pc # "flush") =>
              /\ HitsDuplicate(s) =>
                    /\ sess'[s].pc = "raised"
                    /\ sess'[s].err \in {"IntegrityError", "DBAPIError"}
              /\ sess'[s].err = "IntegrityError" =>
                    /\ HitsDuplicate(s)
                    /\ sess'[s].pc = "raised"
                    /\ sess'[s].pend = {}
                    /\ committed' = committed]_vars

\* C5 witness: the call was refused for the pair the seeded row holds, after
\* an earlier sub-batch of its own had been flushed.
C5_Witness ==
    /\ sess["s1"].pc = "raised" /\ sess["s1"].err = "IntegrityError"
    /\ sess["s1"].flushes = 2
    /\ SeedRow \in committed
    /\ \E k \in 1..Len(sess["s1"].data) : Pair(sess["s1"].data[k]) = Pair(SeedRow)

\* C6: a call with batch_size >= 1 that returns gives one id per input
\* record, the i-th id being that of the row made from the i-th record, and
\* the rows it added to the table are exactly those N rows.
C6_OneIdPerRecordInOrder ==
    \A s \in Sessions :
        (Inserting(s) /\ sess[s].pc = "returned" /\ sess[s].batch_size >= 1) =>
            LET c == sess[s]
                N == Len(c.data)
            IN  /\ Len(c.created_ids) = N
                /\ \A k \in 1..N :
                      EmbeddingRow(c.data[k], c.created_ids[k]) \in committed
                /\ Cardinality(Range(c.created_ids)) = N
                /\ committed \ {SeedRow} = RowsOfCall(c.data, c.created_ids)

\* C6 witness: three records in sub-batches of two (3 is no multiple of 2)
\* were stored and their ids returned.
C6_Witness ==
    /\ sess["s1"].pc = "returned"
    /\ Len(sess["s1"].data) = 3 /\ sess["s1"].batch_size = 2
    /\ Cardinality(committed) = 3

----------------------------------------------------------------------------
(* Properties of the searches *)

Searching(s) == sess[s].op = "search"

Filtering(s) == sess[s].op = "filter"

\* The stored row a result dictionary was made from.
Source(res) == CHOOSE r \in committed : r.id = res.id

\* C7 (as claimed): a given similarity_threshold is a minimum similarity:
\* every returned row has at least that similarity, so a threshold above
\* the best similarity there is gives the empty list.
C7_ThresholdIsMinimumSimilarity ==
    \A s \in Sessions :
        (Searching(s) /\ sess[s].pc = "returned"
            /\ sess[s].args.similarity_threshold # None) =>
            LET a == sess[s].args
                t == a.similarity_threshold[1]
                res == sess[s].result
            IN  /\ \A k \in 1..Len(res) : res[k].similarity >= t
                /\ (\A r \in committed :
                        Similarity(a.metric,
                                   Distance(a.metric, r.embedding, a.query_vector)) < t)
                   => res = <<>>

C9_QueryDimensionChecked ==
    \A s \in Sessions :
        (Searching(s) /\ sess[s].args.query_vector.len # Dim) =>
            /\ sess[s].pc = "raised"
            /\ sess[s].err = "ValueError"
            /\ sess[s].executes = 0

\* C9 witness: a search over stored rows with a query of another length
\* than 1536 was refused.
C9_Witness ==
    /\ Searching("s1") /\ sess["s1"].pc = "raised"
    /\ sess["s1"].args.query_vector.len = 100
    /\ committed # {}

\* C10 (as claimed): vector_search_with_filters given a query vector whose
\* length is not 1536 ends with ValueError and no statement of it is
\* executed.
C10_FilteredQueryDimensionChecked ==
    \A s \in Sessions :
        (Filtering(s) /\ sess[s].args.query_vector.len # Dim
            /\ sess[s].pc \in {"returned", "raised"}) =>
            /\ sess[s].pc = "raised"
            /\ sess[s].err = "ValueError"
            /\ sess[s].executes = 0

----------------------------------------------------------------------------
(* Claims C11..C20 *)

\* A call that has ended, by a return or by an exception.
Ended(s) == sess[s].pc \in {"returned", "raised"}

\* C11 (as claimed): a search called with a limit of zero or less ends with
\* ValueError and no statement of it is executed.
C11_LimitValidated ==
    \A s \in Sessions :
        ((Searching(s) \/ Filtering(s)) /\ Ended(s)
            /\ ValidDimension(sess[s].args.query_vector)
            /\ sess[s].args.limit <= 0) =>
            /\ sess[s].pc = "raised"
            /\ sess[s].err = "ValueError"
            /\ sess[s].executes = 0

\* What the claims mean by a row satisfying the filters of a call.  A
\* metadata filter is satisfied by a map that holds the key with the very
\* value of the filter: the same type and the same content.
HoldsValue(meta, key, value) ==
    /\ meta.kind = "object"
    /\ key \in DOMAIN meta.fields
    /\ meta.fields[key].t = value.t
    /\ meta.fields[key] = value

SatisfiesProject(r, a) ==
    a.project_id # None =>
        Document(r.document_id).project_id = a.project_id[1]

\* A list of no file types names no filter.
SatisfiesFileTypes(r, a) ==
    (a.file_types # None /\ a.file_types[1] # <<>>) =>
        Document(r.document_id).file_type \in Range(a.file_types[1])

SatisfiesMetadata(r, a) ==
    a.metadata_filters # None =>
        \A f \in Range(a.metadata_filters[1]) :
            HoldsValue(r.embedding_metadata, f[1], f[2])

Satisfies(r, a) ==
    /\ SatisfiesProject(r, a)
    /\ SatisfiesFileTypes(r, a)
    /\ SatisfiesMetadata(r, a)

\* C12 (as claimed): every row vector_search_with_filters returns satisfies
\* the project filter, the file type filter and every metadata filter of
\* the call, all at once.
C12_RowsSatisfyAllFilters ==
    \A s \in Sessions :
        (Filtering(s) /\ sess[s].pc = "returned") =>
            \A k \in 1..Len(sess[s].result) :
                Satisfies(Source(sess[s].result[k]), sess[s].args)

\* C13 (as claimed): vector_search_with_filters returns min(limit, number
\* of stored rows satisfying the filters) rows, all of them satisfying the
\* filters, and no stored row that satisfies them and was left out is
\* nearer to the query than a returned one.
C13_NearestMatchingRows ==
    \A s \in Sessions :
        (Filtering(s) /\ sess[s].pc = "returned") =>
            LET a == sess[s].args
                res == sess[s].result
                matching == {r \in committed : Satisfies(r, a)}
                returned == {Source(res[k]) : k \in 1..Len(res)}
            IN  /\ Len(res) = Min(a.limit, Cardinality(matching))
                /\ Cardinality(returned) = Len(res)
                /\ returned \subseteq matching
                /\ \A m \in matching \ returned : \A r \in returned :
                      Distance(a.metric, r.embedding, a.query_vector)
                          <= Distance(a.metric, m.embedding, a.query_vector)

\* C14 (as claimed): with one metadata filter {key: value} and no other
\* filter, and a limit that cuts nothing off, the rows returned are exactly
\* the stored rows whose metadata map holds the key with that value.
C14_MetadataFilterExact ==
    \A s \in Sessions :
        (Filtering(s) /\ sess[s].pc = "returned"
            /\ sess[s].args.project_id = None
            /\ sess[s].args.file_types = None
            /\ sess[s].args.metadata_filters # None
            /\ Len(sess[s].args.metadata_filters[1]) = 1
            /\ sess[s].args.limit >= Cardinality(committed)) =>
            LET f == sess[s].args.metadata_filters[1][1]
                res == sess[s].result
            IN  {res[k].id : k \in 1..Len(res)}
                  = {r.id : r \in {x \in committed :
                                     HoldsValue(x.embedding_metadata, f[1], f[2])}}

\* The keys a result of vector_search_with_filters shares with a result of
\* similarity_search.
Common(res) ==
    [id |-> res.id, document_id |-> res.document_id,
     project_id |-> res.project_id, file_path |-> res.file_path,
     chunk_index |-> res.chunk_index, chunk_text |-> res.chunk_text,
     metadata |-> res.metadata, similarity |-> res.similarity,
     distance |-> res.distance]

\* The results similarity_search can return for a query, limit and metric
\* and no threshold over the stored rows: none when it refuses the query.
PlainResults(rows, a) ==
    LET b == SearchArgs(a.query_vector, a.limit, a.metric, None)
    IN  IF ~ValidDimension(b.query_vector) \/ Refused(rows, b)
        THEN {}
        ELSE {[k \in 1..Len(SimilarityRows(rows, o, b)) |->
                  SearchResult(SimilarityRows(rows, o, b)[k], b)] :
              o \in RowOrders(rows)}

\* C15 (as claimed): what vector_search_with_filters returns when no filter
\* is given is, key for key and row for row, a result similarity_search
\* returns for the same query vector, limit and metric.
C15_NoFilterIsPlainSearch ==
    \A s \in Sessions :
        (Filtering(s) /\ sess[s].pc = "returned"
            /\ sess[s].args.project_id = None
            /\ sess[s].args.file_types = None
            /\ sess[s].args.metadata_filters = None) =>
            [k \in 1..Len(sess[s].result) |-> Common(sess[s].result[k])]
                \in PlainResults(committed, sess[s].args)

\* C16: in every row either search function returns, similarity is
\* 1 - distance under the cosine metric and 1 / (1 + distance) under the L2
\* metric, of the distance between the row's vector and the query; the L2
\* score is above 0 and at most 1; and of two rows of a result the one
\* listed first has the score that is not the smaller.
C16_SimilarityFromDistance ==
    \A s \in Sessions :
        ((Searching(s) \/ Filtering(s)) /\ sess[s].pc = "returned") =>
            LET a == sess[s].args
                res == sess[s].result
            IN  /\ \A k \in 1..Len(res) :
                      /\ res[k].distance =
                            Distance(a.metric, Source(res[k]).embedding,
                                     a.query_vector)
                      /\ a.metric = "cosine" =>
                            res[k].similarity = Scale - res[k].distance
                      /\ a.metric = "l2" =>
                            /\ res[k].similarity =
                                  (Scale * Scale) \div (Scale + res[k].distance)
                            /\ res[k].similarity > 0
                            /\ res[k].similarity <= Scale
                /\ \A k \in 1..Len(res) : \A j \in 1..Len(res) :
                      k < j => res[k].similarity >= res[j].similarity

\* C16 witness: a filtered L2 search returned two rows at different
\* distances, the second with the smaller score.
C16_Witness ==
    /\ Filtering("s1") /\ sess["s1"].pc = "returned"
    /\ sess["s1"].args.metric = "l2"
    /\ Len(sess["s1"].result) >= 2
    /\ sess["s1"].result[1].distance < sess["s1"].result[2].distance
    /\ sess["s1"].result[1].similarity > sess["s1"].result[2].similarity
    /\ sess["s1"].result[2].similarity > 0

\* The (document_id, chunk_index) pairs a call was given.
PairsOf(data) == {<<data[k].document_id, data[k].chunk_index>> : k \in DOMAIN data}

\* Two calls whose inputs share no pair, neither naming a pair twice.
DisjointCalls(s, t) ==
    /\ s # t /\ Inserting(s) /\ Inserting(t)
    /\ PairsOf(sess[s].data) \cap PairsOf(sess[t].data) = {}
    /\ Cardinality(PairsOf(sess[s].data)) = Len(sess[s].data)
    /\ Cardinality(PairsOf(sess[t].data)) = Len(sess[t].data)

\* C17: of two insert_embeddings calls on separate sessions whose pairs are
\* disjoint, however their flushes and commits interleave, neither is ever
\* refused with a conflict nor made to wait for the other; a call that has
\* committed has every one of its records stored, whatever the other call
\* did, rollback included; no record is stored twice; and when both have
\* returned the stored rows are exactly the rows of the two inputs.
C17_DisjointCallsBothStored ==
    \A s \in Sessions : \A t \in Sessions :
        DisjointCalls(s, t) =>
            /\ sess[s].err # "IntegrityError"
            /\ sess[s].pc = "flush" =>
                  ~WaitsFor(NewRows(sess[s].embeddings, nextId), s)
            /\ sess[s].pc \in {"log", "returned"} =>
                  /\ Len(sess[s].created_ids) = Len(sess[s].data)
                  /\ RowsOfCall(sess[s].data, sess[s].created_ids)
                        \subseteq committed
            /\ Cardinality({Pair(r) : r \in committed}) = Cardinality(committed)
            /\ (sess[s].pc = "returned" /\ sess[t].pc = "returned") =>
                  /\ committed =
                        RowsOfCall(sess[s].data, sess[s].created_ids)
                          \cup RowsOfCall(sess[t].data, sess[t].created_ids)
                  /\ Cardinality(committed)
                        = Len(sess[s].data) + Len(sess[t].data)

\* C17 witness: two calls of two records each, flushed one record at a time
\* with the flushes interleaved (the ids alternate), have both returned and
\* the four rows are stored.
C17_Witness ==
    /\ DisjointCalls("s1", "s2")
    /\ sess["s1"].pc = "returned" /\ sess["s2"].pc = "returned"
    /\ sess["s1"].created_ids = <<1, 3>>
    /\ sess["s2"].created_ids = <<2, 4>>
    /\ Cardinality(committed) = 4

\* C18 (as claimed): when a call of insert_embeddings, similarity_search or
\* vector_search_with_filters ends with a storage error, the session's
\* transaction has been rolled back, and the failed statement was sent
\* once.
C18_StorageErrorAfterRollback ==
    \A s \in Sessions :
        (sess[s].pc = "raised" /\ sess[s].err = "DBAPIError") =>
            /\ sess[s].tx = "none"
            /\ sess[s].pend = {}
            /\ sess[s].executes <= 1

\* C20 (as claimed): a search call that took more than 100 ms has logged a
\* warning and has returned, and what it returned is what the same call
\* returns when it is fast: the rows its statement selects, all of them.
C20_SlowSearchWarnsAndReturns ==
    \A s \in Sessions :
        ((Searching(s) \/ Filtering(s)) /\ sess[s].slow) =>
            /\ sess[s].pc = "returned"
            /\ sess[s].warned
            /\ Len(sess[s].result) =
                  Min(sess[s].args.limit,
                      Cardinality(IF Searching(s)
                                  THEN ThresholdWhere(committed, sess[s].args)
                                  ELSE FilterWhere(committed, sess[s].args)))

\* Every embedding, stored or flushed in an open transaction, refers to a
\* document of the documents table, and every document to a project of the
\* projects table.
ReferentialIntegrity ==
    /\ \A e \in committed \cup UNION {sess[s].pend : s \in Sessions} :
          e.document_id \in documents
    /\ \A d \in documents : Document(d).project_id \in projects

\* The step that deletes a project leaves none of its documents and none of
\* their embeddings; the step that deletes a document leaves none of its
\* embeddings; nothing else goes.
CascadeInSameStep ==
    /\ \A p \in projects \ projects' :
          /\ DocumentsOf(p, documents') = {}
          /\ \A e \in committed' : Document(e.document_id).project_id # p
    /\ \A d \in documents \ documents' :
          \A e \in committed' : e.document_id # d
    /\ \A e \in committed \ committed' :
          e.document_id \in documents \ documents'
    /\ \A d \in documents \ documents' :
          projects' = projects \/ Document(d).project_id \in projects \ projects'

\* C19: in every reachable state every embedding refers to an existing
\* document and every document to an existing project; and a deletion of
\* a project takes its documents and their embeddings, a deletion of a
\* document its embeddings, within the deleting step itself.
C19_ReferentialIntegrity ==
    []ReferentialIntegrity /\ [][CascadeInSameStep]_vars

\* C19 witness: embeddings of two documents of different projects were
\* stored, then one project was deleted: its document and that document's
\* embedding are gone, the other project's are still there.
C19_Witness ==
    /\ "p1" \notin projects /\ "p2" \in projects
    /\ "d2" \in documents
    /\ sess["s1"].pc = "returned" /\ Len(sess["s1"].data) = 2
    /\ Cardinality(committed) = 1
    /\ \A e \in committed : e.document_id = "d2"

----------------------------------------------------------------------------
(* Claims C21..C30 *)

\* C28 (as claimed): whenever insert_embeddings ends with an exception, of
\* whatever kind, none of the rows the call made is in the table, those of
\* sub-batches flushed before the exception included.
C28_RaiseLeavesNothing ==
    \A s \in Sessions :
        (Inserting(s) /\ sess[s].pc = "raised") =>
            /\ RowsOfCall(sess[s].data, sess[s].created_ids) \cap committed = {}
            /\ sess[s].pend = {}

\* C29 (as claimed): for every batch_size, zero and negative included, a
\* call of insert_embeddings that returns gives one id per input record and
\* every input record is stored.
C29_SuccessStoresEveryRecord ==
    \A s \in Sessions :
        (Inserting(s) /\ sess[s].pc = "returned") =>
            /\ Len(sess[s].created_ids) = Len(sess[s].data)
            /\ Cardinality(RowsOfCall(sess[s].data, sess[s].created_ids)
                             \cap committed) = Len(sess[s].data)

\* Python's == on metadata values: dicts by keys and values whatever the
\* order of their items, lists item by item, scalars by type and value.
RECURSIVE PyEq(_, _)
PyEq(a, b) ==
    /\ a.t = b.t
    /\ CASE a.t = "dict" ->
              /\ Keys(a.items) = Keys(b.items)
              /\ \A key \in Keys(a.items) :
                    PyEq(ValueAt(a.items, key), ValueAt(b.items, key))
         [] a.t = "list" ->
              /\ Len(a.items) = Len(b.items)
              /\ \A k \in DOMAIN a.items : PyEq(a.items[k], b.items[k])
         [] OTHER -> a = b

\* The record of the call of session s1 that the embedding `id` was made of.
RecordOf(id) ==
    sess["s1"].data[CHOOSE k \in DOMAIN sess["s1"].created_ids :
                        sess["s1"].created_ids[k] = id]

C26_HealthReflectsDatabase ==
    /\ health.pc \in {"checked", "responded"} =>
          /\ health.raised = "none"
          /\ health.result = (health.db_up /\ health.vector)
    /\ health.pc = "responded" =>
          (health.status = "healthy") = health.result

\* C27: when a use of get_db that handed out a session has ended, the
\* session is closed; it was committed only if the body raised nothing; and
\* if the body or the commit raised, the transaction was rolled back,
\* nothing of it is stored, and that exception reached the caller.
C27_SessionLifecycle ==
    (dep.pc = "done" /\ dep.bind # 0) =>
        /\ dep.closed
        /\ dep.commits > 0 => dep.body = "ok"
        /\ dep.commits <= 1
        /\ dep.exc # "none" =>
              /\ dep.tx = "rolled back"
              /\ ~dep.stored
              /\ dep.raised = dep.exc
        /\ dep.exc = "none" => (dep.tx = "committed" /\ dep.raised = "none")
        /\ ~dep.pending

\* C27's case: a body that wrote through the session and then raised; the
\* session was rolled back once and closed, and the exception propagated.
C27_Witness ==
    /\ dep.pc = "done"
    /\ dep.bind # 0
    /\ dep.body = "Exception"
    /\ dep.rollbacks = 1
    /\ dep.closed
    /\ dep.raised = "body"

\* C23: two get_settings() calls with no reset_settings() between them
\* return the same instance, and a get_settings() after a reset_settings()
\* returns an instance distinct from every one returned before that reset.
C23_SettingsSingleton ==
    LET c == settings.calls IN
    \A i \in 1..Len(c) : \A j \in 1..Len(c) :
        (i < j /\ c[i] > 0 /\ c[j] > 0) =>
            IF \A k \in i..j : c[k] # 0
            THEN c[i] = c[j]
            ELSE c[i] # c[j]

\* C23's case: two calls returned one instance, then a reset, then a call
\* that returned another.
C23_Witness ==
    \E i \in 1..Len(settings.calls) :
        /\ i + 3 <= Len(settings.calls)
        /\ settings.calls[i] > 0
        /\ settings.calls[i + 1] = settings.calls[i]
        /\ settings.calls[i + 2] = 0
        /\ settings.calls[i + 3] > settings.calls[i]

\* The correlation headers of the request in flight, as the correlation
\* middleware reads them.
Supplied == GetCorrelationIdFromHeaders(request.headers)

\* The correlation ids bound to the log entries of the request.
LoggedIds == {request.logs[k].correlation_id : k \in 1..Len(request.logs)}

\* C24: the response to a request that carried no correlation header has
\* in X-Correlation-ID the one id generated for the request: the id in
\* request.state.correlation_id, and the only id bound to the log entries
\* of the request.
C24_OneGeneratedId ==
    (request.pc = "responded" /\ Supplied = Absent) =>
        /\ request.header = request.state
        /\ LoggedIds = {request.header}

\* C25: the response to a request that supplied a correlation id in a
\* header the correlation middleware recognises has that value in
\* request.state.correlation_id and in X-Correlation-ID.
C25_SuppliedIdPropagated ==
    (request.pc = "responded" /\ Supplied # Absent) =>
        /\ request.state = Supplied
        /\ request.header = Supplied

\* The lines of a text that come from the session file without being the
\* output of sanitize_text.
RawSessionLines(text) ==
    {k \in 1..Len(text) : text[k].src = "session" /\ ~text[k].sanitized}

\* C30: no line taken from the raw session file is sent to the summary
\* service or written to the commit message file without having passed
\* through sanitize_text.
C30_SessionTextSanitized ==
    /\ RawSessionLines(hook.sent) = {}
    /\ RawSessionLines(hook.written) = {}

====
